---- MODULE Spec2Model ----
(***************************************************************************)
(* Meteorological Stations API: token authentication (login, JWT issuance  *)
(* and verification) in front of two CRUD collections, Stations and        *)
(* Measurements, kept in a document store.                                 *)
(*                                                                         *)
(* A request is handled in the steps the event loop interleaves: it is     *)
(* received by a router, authenticateToken runs (one store read), then the *)
(* route handler runs (one atomic store operation) and answers.            *)
(***************************************************************************)
EXTENDS Integers, Sequences, FiniteSets, TLC

----------------------------------------------------------------------------
(* Bounds of the model *)

\* the clock runs from 0 to MaxTime seconds, in steps of ClockStep
MaxTime == 129600
ClockStep == 43200
\* documents ever inserted in each collection
MaxUsers == 1
MaxStations == 2
MaxMeasurements == 2
\* tokens login hands out
MaxTokens == 2

(* Program constants *)

\* expiresIn: '24h', in the seconds of a JWT's NumericDate
ExpiresIn == 86400

JWT_SECRET == "JWT_SECRET"
ADMIN_USERNAME == "admin"
ADMIN_PASSWORD == "admin123"

----------------------------------------------------------------------------
(* JavaScript values and strings *)

\* A string of a header is a sequence of characters; a character is a
\* space, or an atom standing for a run of non-space characters: a word
\* such as Bearer, or a whole JWT.
SP == [kind |-> "space"]
Txt(s) == [kind |-> "text", text |-> s]

Undefined == [defined |-> FALSE, str |-> <<>>]
Defined(s) == [defined |-> TRUE, str |-> s]

\* `!token`: undefined and the empty string are falsy
Falsy(v) == ~v.defined \/ v.str = <<>>

\* typed request-body values, as typeof sees them
Str(s) == [type |-> "string", val |-> s]
Undef == [type |-> "undefined", val |-> "undefined"]
Num(s) == [type |-> "number", val |-> s]

\* String.prototype.split(' '): the words between the spaces, empty words kept
RECURSIVE Split(_)
Split(s) ==
  IF \A i \in 1..Len(s) : s[i] # SP
  THEN <<s>>
  ELSE LET i == CHOOSE k \in 1..Len(s) :
                  s[k] = SP /\ \A j \in 1..(k - 1) : s[j] # SP
       IN <<SubSeq(s, 1, i - 1)>> \o Split(SubSeq(s, i + 1, Len(s)))

\* element [i] of a JavaScript array (0-based), undefined past its end
At(arr, i) == IF i + 1 <= Len(arr) THEN Defined(arr[i + 1]) ELSE Undefined

----------------------------------------------------------------------------
(* jsonwebtoken *)

\* the HMAC of a payload under a key
Mac(key, userId, iat, exp) == <<key, userId, iat, exp>>

\* jwt.sign({ userId }, key, { expiresIn }) at time t: one atom
JwtSign(userId, key, t) ==
  [kind |-> "jwt", userId |-> userId, iat |-> t, exp |-> t + ExpiresIn,
   sig |-> Mac(key, userId, t, t + ExpiresIn)]

IsJwt(s) == Len(s) = 1 /\ s[1].kind = "jwt"

SignatureVerifies(s, key) ==
  IsJwt(s) /\ s[1].sig = Mac(key, s[1].userId, s[1].iat, s[1].exp)

\* (a token still taken at the second it expires)
JwtExpiredLax(s, t) == t > s[1].exp

\* exp is reached when the clock is at or past it
JwtExpired(s, t) == t >= s[1].exp

\* (the expiry not looked at: ignoreExpiration)
JwtVerifyNoExpiry(s, key, t) == SignatureVerifies(s, key)

\* jwt.verify(token, key) at time t returns the payload; FALSE: it throws
JwtVerify(s, key, t) == SignatureVerifies(s, key) /\ ~JwtExpired(s, t)

----------------------------------------------------------------------------
(* bcryptjs *)

Hash(pw) == <<"bcrypt", pw>>

\* bcrypt.compare(s, hash) throws unless both are strings
CompareThrows(s) == s.type # "string"
Compare(s, hash) == hash = Hash(s.val)

----------------------------------------------------------------------------
(* State *)

VARIABLES
  now,          \* the clock, in seconds
  dbUp,         \* whether the document store answers
  users,        \* Users collection: _id -> [username, password, role]
  stations,     \* Stations collection: _id -> document
  measurements, \* Measurements collection: _id -> document
  ids,          \* how many _ids each collection has handed out
  issued,       \* the tokens login has returned (clients hold them)
  req,          \* the requests in flight, one per connection
  last          \* the response sent last, with the request it answers

vars == <<now, dbUp, users, stations, measurements, ids, issued, req, last>>

store == <<users, stations, measurements, ids>>

NoUser == 0
Idle == [pc |-> "idle", route |-> "none", header |-> Undefined,
         user |-> NoUser, authRuns |-> 0]

NoHeader == Undefined
Hdr(s) == Defined(s)

Bearer == Txt("Bearer")

----------------------------------------------------------------------------
(* The document store, as Mongoose presents it *)

\* a path parameter or reference that casts to an ObjectId
MalformedId == -1
IsObjectId(id) == id >= 1

Names == {"A", "B"}
Codes == {"c1", "c2"}
Values == {"1", "2"}

\* the strings that Number(...) turns into a number, here written as the
\* number's digits
Numerals == {"1", "2", "10", "20"}

\* stationSchema
StationSchema ==
  [required |-> {"name", "long", "lat", "type", "code"},
   strings  |-> {"name", "type", "code"},
   numbers  |-> {"long", "lat"},
   objectIds |-> {},
   unique   |-> {"code"}]

\* measurementSchema
MeasurementSchema ==
  [required |-> {"value", "station_id"},
   strings  |-> {},
   numbers  |-> {"value"},
   objectIds |-> {"station_id"},
   unique   |-> {}]

\* documents whose values have the types of the schema: String and Number
\* paths hold typed values, station_id an _id
StationDoc(n, c) ==
  [name |-> Str(n), long |-> Num("10"), lat |-> Num("20"),
   type |-> Str("manual"), code |-> Str(c)]

MeasurementDoc(v, s) == [value |-> Num(v), station_id |-> s]

\* casting a body's values to the schema's types; FALSE: a CastError
Casts(schema, body) ==
  /\ \A f \in DOMAIN body \cap schema.objectIds : IsObjectId(body[f])
  /\ \A f \in DOMAIN body \cap schema.numbers :
       body[f].val = "" \/ body[f].val \in Numerals

\* (the body stored as it was sent)
CastNothing(schema, body) == body

\* the body with every value cast to the type of its path: a String path
\* takes a number as its digits, a Number path takes a numeric string as the
\* number
Cast(schema, body) ==
  [f \in DOMAIN body |->
     IF f \in schema.strings THEN Str(body[f].val)
     ELSE IF f \in schema.numbers THEN Num(body[f].val)
     ELSE body[f]]

\* the required validator on one supplied value: an empty string is refused
\* on a String path, and casts to null on a Number path
RequiredHolds(schema, body, f) ==
  f \in schema.strings \cup schema.numbers => body[f].val # ""

\* document validation (save, and an overwriting update): every required
\* path is present and valid
DocumentValid(schema, body) ==
  /\ Casts(schema, body)
  /\ \A f \in schema.required : f \in DOMAIN body /\ RequiredHolds(schema, body, f)

\* update validators (runValidators on a $set): only the supplied paths
UpdateValid(schema, body) ==
  /\ Casts(schema, body)
  /\ \A f \in DOMAIN body : RequiredHolds(schema, body, f)

\* (the schema without unique: true)
NoUniqueIndex(schema, coll, id, doc) == FALSE

\* (a uniqueness test that does not leave out the document being written)
DuplicateKeyCountingItself(schema, coll, id, doc) ==
  \E f \in schema.unique \cap DOMAIN doc :
    \E j \in DOMAIN coll : f \in DOMAIN coll[j] /\ coll[j][f] = doc[f]

\* a unique index refuses a document whose key another document holds
DuplicateKey(schema, coll, id, doc) ==
  \E f \in schema.unique \cap DOMAIN doc :
    \E j \in DOMAIN coll : j # id /\ f \in DOMAIN coll[j] /\ coll[j][f] = doc[f]

\* (the body sent as the replacement document)
MergeReplacing(doc, body) == body

\* { $set: body } applied to a document
Merge(doc, body) ==
  [f \in DOMAIN doc \cup DOMAIN body |->
     IF f \in DOMAIN body THEN body[f] ELSE doc[f]]

Remove(coll, id) == [j \in DOMAIN coll \ {id} |-> coll[j]]
Put(coll, id, doc) == [j \in DOMAIN coll \cup {id} |-> IF j = id THEN doc ELSE coll[j]]

\* what a store call gives: a rejection (the handler's catch), null, or a
\* document together with the collection after the call
Thrown(msg) == [kind |-> "error", message |-> msg]
Null == [kind |-> "null"]
Found(doc, coll) == [kind |-> "doc", doc |-> doc, coll |-> coll]

\* Model.findById(id)
findById(coll, id) ==
  IF ~IsObjectId(id) THEN Thrown("CastError")
  ELSE IF ~dbUp THEN Thrown("MongoNetworkError")
  ELSE IF id \notin DOMAIN coll THEN Null
  ELSE Found(coll[id], coll)

\* new Model(body).save(), the document getting _id id
save(schema, coll, id, body) ==
  IF ~DocumentValid(schema, body) THEN Thrown("ValidationError")
  ELSE IF ~dbUp THEN Thrown("MongoNetworkError")
  ELSE IF DuplicateKey(schema, coll, id, Cast(schema, body))
       THEN Thrown("E11000 duplicate key")
  ELSE Found(Cast(schema, body), Put(coll, id, Cast(schema, body)))

\* an update whose body has no operators is sent as { $set: body }, with
\* update validators on the supplied paths
SetUpdate(schema, coll, id, body) ==
  IF ~IsObjectId(id) THEN Thrown("CastError")
  ELSE IF ~UpdateValid(schema, body) THEN Thrown("ValidationError")
  ELSE IF ~dbUp THEN Thrown("MongoNetworkError")
  ELSE IF id \notin DOMAIN coll THEN Null
  ELSE IF DuplicateKey(schema, coll, id, Merge(coll[id], Cast(schema, body)))
       THEN Thrown("E11000 duplicate key")
  ELSE Found(Merge(coll[id], Cast(schema, body)),
             Put(coll, id, Merge(coll[id], Cast(schema, body))))

\* with overwrite: true the body is validated as a whole document and
\* replaces the stored one
Overwrite(schema, coll, id, body) ==
  IF ~IsObjectId(id) THEN Thrown("CastError")
  ELSE IF ~DocumentValid(schema, body) THEN Thrown("ValidationError")
  ELSE IF ~dbUp THEN Thrown("MongoNetworkError")
  ELSE IF id \notin DOMAIN coll THEN Null
  ELSE IF DuplicateKey(schema, coll, id, Cast(schema, body))
       THEN Thrown("E11000 duplicate key")
  ELSE Found(Cast(schema, body), Put(coll, id, Cast(schema, body)))

\* (the overwrite option dropped)
findByIdAndUpdateAlwaysSet(schema, coll, id, body, overwrite) ==
  SetUpdate(schema, coll, id, body)

\* Model.findByIdAndUpdate(id, body, { new: true, runValidators: true,
\* overwrite })
findByIdAndUpdate(schema, coll, id, body, overwrite) ==
  IF overwrite THEN Overwrite(schema, coll, id, body)
  ELSE SetUpdate(schema, coll, id, body)

\* Model.findByIdAndDelete(id)
findByIdAndDelete(coll, id) ==
  IF ~IsObjectId(id) THEN Thrown("CastError")
  ELSE IF ~dbUp THEN Thrown("MongoNetworkError")
  ELSE IF id \notin DOMAIN coll THEN Null
  ELSE Found(coll[id], Remove(coll, id))

\* Model.find(filter): exact match on the filter's paths
find(coll, filter) ==
  IF ~dbUp THEN Thrown("MongoNetworkError")
  ELSE Found({j \in DOMAIN coll :
                \A f \in DOMAIN filter : f \in DOMAIN coll[j] /\ coll[j][f] = filter[f]},
             coll)

\* populate('station_id'): the referenced station, or null when none has the id
Populate(doc) ==
  IF "station_id" \in DOMAIN doc /\ doc.station_id \in DOMAIN stations
  THEN [doc EXCEPT !.station_id = stations[doc.station_id]]
  ELSE [f \in DOMAIN doc |-> IF f = "station_id" THEN Null ELSE doc[f]]

----------------------------------------------------------------------------
(* Responses *)

NoBody == <<>>
NoDoc == Null
NoInput == [kind |-> "none"]

\* res.status(status).json(...): the status, the error message or the
\* document sent (id: its _id, 0 when no document is sent), and of the
\* request it answers the route and the paths its body supplied; at: when
\* it was sent
Resp(kind, id, body, status, error, doc) ==
  [kind |-> kind, fields |-> DOMAIN body, status |-> status, error |-> error,
   id |-> id, doc |-> doc, input |-> NoInput, at |-> now]

\* res.status(201).json(saved): the answer of a create, kept with the body
\* that was sent
Created(kind, id, body, doc) ==
  [Resp(kind, id, body, 201, "", doc)
     EXCEPT !.input = [kind |-> "body", body |-> body]]

NoResponse == Resp("none", 0, NoBody, 0, "", NoDoc)

\* the response is sent and the connection is free again
Answer(r, resp) ==
  /\ req' = [req EXCEPT ![r] = Idle]
  /\ last' = resp

----------------------------------------------------------------------------
(* The environment of the server *)

\* the clock advances
Tick ==
  /\ now + ClockStep <= MaxTime
  /\ now' = now + ClockStep
  /\ UNCHANGED <<dbUp, users, stations, measurements, ids, issued, req, last>>

\* the document store becomes unreachable, and reachable again
StorageFails ==
  /\ dbUp
  /\ dbUp' = FALSE
  /\ UNCHANGED <<now, users, stations, measurements, ids, issued, req, last>>

StorageRecovers ==
  /\ ~dbUp
  /\ dbUp' = TRUE
  /\ UNCHANGED <<now, users, stations, measurements, ids, issued, req, last>>

\* createAdminUser: the admin is created unless a user of that name exists;
\* the pre('save') hook stores the password hashed
CreateAdmin ==
  /\ dbUp
  /\ ids.users < MaxUsers
  /\ ~\E u \in DOMAIN users : users[u].username = ADMIN_USERNAME
  /\ users' = Put(users, ids.users + 1,
                  [username |-> ADMIN_USERNAME,
                   password |-> Hash(ADMIN_PASSWORD),
                   role |-> "admin"])
  /\ ids' = [ids EXCEPT !.users = @ + 1]
  /\ UNCHANGED <<now, dbUp, stations, measurements, issued, req, last>>

\* a user is removed from the Users collection (by an administrator, out of
\* band: no route does it)
RemoveUser(u) ==
  /\ dbUp
  /\ u \in DOMAIN users
  /\ users' = Remove(users, u)
  /\ UNCHANGED <<now, dbUp, stations, measurements, ids, issued, req, last>>

----------------------------------------------------------------------------
(* Authentication *)

\* User.findOne({ username }): the user's _id, or NoUser
findOne(username) ==
  IF \E u \in DOMAIN users : users[u].username = username
  THEN CHOOSE u \in DOMAIN users : users[u].username = username
  ELSE NoUser

\* generateToken(userId)
generateToken(userId) == JwtSign(userId, JWT_SECRET, now)

\* the answer of login, kept with the credentials it answers
LoginResp(username, password, status, error, doc) ==
  [Resp("login", 0, NoBody, status, error, doc)
     EXCEPT !.input = [kind |-> "credentials", username |-> username,
                       password |-> password]]

\* (a login that keeps the token it returned on the user's document)
LoginKeepingSession(username, password) ==
  /\ dbUp
  /\ findOne(username) # NoUser
  /\ ~CompareThrows(password)
  /\ Compare(password, users[findOne(username)].password)
  /\ Cardinality(issued \cup {generateToken(findOne(username))}) <= MaxTokens
  /\ last' = LoginResp(username, password, 200, "",
                       [token |-> generateToken(findOne(username)),
                        userId |-> findOne(username)])
  /\ issued' = issued \cup {generateToken(findOne(username))}
  /\ users' = Put(users, findOne(username),
                  Merge(users[findOne(username)],
                        [session |-> generateToken(findOne(username))]))
  /\ UNCHANGED <<now, dbUp, stations, measurements, ids, req>>

\* router.post('/login')
Login(username, password) ==
  /\ LET user == findOne(username) IN
       IF ~dbUp
       THEN /\ last' = LoginResp(username, password, 500, "MongoNetworkError", NoDoc)
            /\ UNCHANGED issued
       ELSE IF user = NoUser
       THEN /\ last' = LoginResp(username, password, 401, "Invalid credentials", NoDoc)
            /\ UNCHANGED issued
       ELSE IF CompareThrows(password)
       THEN /\ last' = LoginResp(username, password, 500, "Illegal arguments", NoDoc)
            /\ UNCHANGED issued
       ELSE IF ~Compare(password, users[user].password)
       THEN /\ last' = LoginResp(username, password, 401, "Invalid credentials", NoDoc)
            /\ UNCHANGED issued
       ELSE /\ Cardinality(issued \cup {generateToken(user)}) <= MaxTokens
            /\ last' = LoginResp(username, password, 200, "",
                                 [token |-> generateToken(user), userId |-> user])
            /\ issued' = issued \cup {generateToken(user)}
  /\ UNCHANGED <<now, dbUp, users, stations, measurements, ids, req>>

\* (a router without router.use(authenticateToken))
ReceiveUngated(r, route, header) ==
  /\ req[r].pc = "idle"
  /\ req' = [req EXCEPT ![r] = [pc |-> "handler", route |-> route,
                                header |-> header, user |-> NoUser,
                                authRuns |-> 0]]
  /\ UNCHANGED <<now, dbUp, users, stations, measurements, ids, issued, last>>

\* a request for a route of the stations or the measurements router arrives:
\* router.use(authenticateToken) puts the middleware before every handler
Receive(r, route, header) ==
  /\ req[r].pc = "idle"
  /\ req' = [req EXCEPT ![r] = [pc |-> "auth", route |-> route, header |-> header,
                                user |-> NoUser, authRuns |-> 0]]
  /\ UNCHANGED <<now, dbUp, users, stations, measurements, ids, issued, last>>

\* authHeader && authHeader.split(' ')[1]
TokenOf(header) ==
  IF ~header.defined THEN Undefined
  ELSE IF header.str = <<>> THEN header
  ELSE At(Split(header.str), 1)

\* res.status(401).json({ error }) from the middleware
Unauthorized(r, error) ==
  Answer(r, [Resp(req[r].route, 0, NoBody, 401, error, NoDoc)
               EXCEPT !.input = [kind |-> "header", header |-> req[r].header]])

\* authenticateToken
authenticateToken(r) ==
  /\ req[r].pc = "auth"
  /\ LET token == TokenOf(req[r].header) IN
       IF Falsy(token)
       THEN Unauthorized(r, "Access token required")
       ELSE IF ~JwtVerify(token.str, JWT_SECRET, now)
       THEN Unauthorized(r, "Invalid token")
       ELSE IF findById(users, token.str[1].userId).kind = "error"
       THEN Unauthorized(r, "Invalid token")
       ELSE IF findById(users, token.str[1].userId).kind = "null"
       THEN Unauthorized(r, "User not found")
       ELSE /\ req' = [req EXCEPT ![r].pc = "handler",
                                  ![r].user = token.str[1].userId,
                                  ![r].authRuns = @ + 1]
            /\ UNCHANGED last
  /\ UNCHANGED <<now, dbUp, users, stations, measurements, ids, issued>>

----------------------------------------------------------------------------
(* Route handlers.  A handler runs for a request that authenticateToken    *)
(* passed on with next(); its method, path and body are read here.         *)

Handling(r, route) == req[r].pc = "handler" /\ req[r].route = route

\* the body of a catch block: res.status(status).json({ error: error.message })
Caught(kind, id, body, status, res) ==
  Resp(kind, 0, body, status, res.message, NoDoc)

NotFound(kind, id, body, what) ==
  Resp(kind, 0, body, 404, what, NoDoc)

\* the filter a list handler builds from the query string: the whitelisted
\* parameters that are present
QueryFilter(query, paths) ==
  [f \in DOMAIN query \cap paths |-> query[f]]

\* router.get('/') of the stations router
StationList(r, query) ==
  /\ Handling(r, "stations")
  /\ LET res == find(stations, QueryFilter(query, {"name", "type"})) IN
       Answer(r, IF res.kind = "error"
                 THEN Caught("stations.list", 0, query, 500, res)
                 ELSE Resp("stations.list", 0, query, 200, "",
                           [j \in res.doc |-> stations[j]]))
  /\ UNCHANGED <<now, dbUp, users, stations, measurements, ids, issued>>

\* router.get('/:id') of the stations router
StationGet(r, id) ==
  /\ Handling(r, "stations")
  /\ LET res == findById(stations, id) IN
       Answer(r, IF res.kind = "error"
                 THEN Caught("stations.get", id, NoBody, 500, res)
                 ELSE IF res.kind = "null"
                 THEN NotFound("stations.get", id, NoBody, "Station not found")
                 ELSE Resp("stations.get", id, NoBody, 200, "", res.doc))
  /\ UNCHANGED <<now, dbUp, users, stations, measurements, ids, issued>>

\* router.post('/') of the stations router
StationCreate(r, body) ==
  /\ Handling(r, "stations")
  /\ LET id == ids.stations + 1
         res == save(StationSchema, stations, id, body) IN
       IF res.kind = "error"
       THEN /\ Answer(r, Caught("stations.create", 0, body, 400, res))
            /\ UNCHANGED <<stations, ids>>
       ELSE /\ id <= MaxStations
            /\ Answer(r, Created("stations.create", id, body, res.doc))
            /\ stations' = res.coll
            /\ ids' = [ids EXCEPT !.stations = id]
  /\ UNCHANGED <<now, dbUp, users, measurements, issued>>

\* the answer of a put, patch or delete handler to what the store call gave
Updated(r, kind, id, body, res, errStatus, what, okDoc) ==
  Answer(r, IF res.kind = "error" THEN Caught(kind, id, body, errStatus, res)
            ELSE IF res.kind = "null" THEN NotFound(kind, id, body, what)
            ELSE Resp(kind, id, body, 200, "", okDoc))

\* router.put('/:id') of the stations router
StationPut(r, id, body) ==
  /\ Handling(r, "stations")
  /\ LET res == findByIdAndUpdate(StationSchema, stations, id, body, TRUE) IN
       /\ Updated(r, "stations.put", id, body, res, 400, "Station not found",
                  IF res.kind = "doc" THEN res.doc ELSE NoDoc)
       /\ stations' = IF res.kind = "doc" THEN res.coll ELSE stations
  /\ UNCHANGED <<now, dbUp, users, measurements, ids, issued>>

\* router.patch('/:id') of the stations router
StationPatch(r, id, body) ==
  /\ Handling(r, "stations")
  /\ LET res == findByIdAndUpdate(StationSchema, stations, id, body, FALSE) IN
       /\ Updated(r, "stations.patch", id, body, res, 400, "Station not found",
                  IF res.kind = "doc" THEN res.doc ELSE NoDoc)
       /\ stations' = IF res.kind = "doc" THEN res.coll ELSE stations
  /\ UNCHANGED <<now, dbUp, users, measurements, ids, issued>>

\* (a delete that takes the station's measurements with it)
StationDeleteCascading(r, id) ==
  /\ Handling(r, "stations")
  /\ LET res == findByIdAndDelete(stations, id) IN
       /\ Updated(r, "stations.delete", 0, NoBody, res, 500, "Station not found",
                  NoDoc)
       /\ stations' = IF res.kind = "doc" THEN res.coll ELSE stations
       /\ measurements' =
            IF res.kind = "doc"
            THEN [m \in {j \in DOMAIN measurements :
                           measurements[j].station_id # id} |-> measurements[m]]
            ELSE measurements
  /\ UNCHANGED <<now, dbUp, users, ids, issued>>

\* router.delete('/:id') of the stations router
StationDelete(r, id) ==
  /\ Handling(r, "stations")
  /\ LET res == findByIdAndDelete(stations, id) IN
       /\ Updated(r, "stations.delete", 0, NoBody, res, 500, "Station not found",
                  NoDoc)
       /\ stations' = IF res.kind = "doc" THEN res.coll ELSE stations
  /\ UNCHANGED <<now, dbUp, users, measurements, ids, issued>>

\* router.get('/') of the measurements router
MeasurementList(r, query) ==
  /\ Handling(r, "measurements")
  /\ LET res == IF ~Casts(MeasurementSchema, QueryFilter(query, {"station_id"}))
                THEN Thrown("CastError")
                ELSE find(measurements, QueryFilter(query, {"station_id"})) IN
       Answer(r, IF res.kind = "error"
                 THEN Caught("measurements.list", 0, query, 500, res)
                 ELSE Resp("measurements.list", 0, query, 200, "",
                           [j \in res.doc |-> Populate(measurements[j])]))
  /\ UNCHANGED <<now, dbUp, users, stations, measurements, ids, issued>>

\* router.get('/:id') of the measurements router
MeasurementGet(r, id) ==
  /\ Handling(r, "measurements")
  /\ LET res == findById(measurements, id) IN
       Answer(r, IF res.kind = "error"
                 THEN Caught("measurements.get", id, NoBody, 500, res)
                 ELSE IF res.kind = "null"
                 THEN NotFound("measurements.get", id, NoBody, "Measurement not found")
                 ELSE Resp("measurements.get", id, NoBody, 200, "", Populate(res.doc)))
  /\ UNCHANGED <<now, dbUp, users, stations, measurements, ids, issued>>

\* router.post('/') of the measurements router
MeasurementCreate(r, body) ==
  /\ Handling(r, "measurements")
  /\ LET id == ids.measurements + 1
         res == save(MeasurementSchema, measurements, id, body) IN
       IF res.kind = "error"
       THEN /\ Answer(r, Caught("measurements.create", 0, body, 400, res))
            /\ UNCHANGED <<measurements, ids>>
       ELSE /\ id <= MaxMeasurements
            /\ Answer(r, Created("measurements.create", id, body, res.doc))
            /\ measurements' = res.coll
            /\ ids' = [ids EXCEPT !.measurements = id]
  /\ UNCHANGED <<now, dbUp, users, stations, issued>>

\* router.put('/:id') of the measurements router
MeasurementPut(r, id, body) ==
  /\ Handling(r, "measurements")
  /\ LET res == findByIdAndUpdate(MeasurementSchema, measurements, id, body, TRUE) IN
       /\ Updated(r, "measurements.put", id, body, res, 400, "Measurement not found",
                  IF res.kind = "doc" THEN res.doc ELSE NoDoc)
       /\ measurements' = IF res.kind = "doc" THEN res.coll ELSE measurements
  /\ UNCHANGED <<now, dbUp, users, stations, ids, issued>>

\* router.patch('/:id') of the measurements router
MeasurementPatch(r, id, body) ==
  /\ Handling(r, "measurements")
  /\ LET res == findByIdAndUpdate(MeasurementSchema, measurements, id, body, FALSE) IN
       /\ Updated(r, "measurements.patch", id, body, res, 400, "Measurement not found",
                  IF res.kind = "doc" THEN res.doc ELSE NoDoc)
       /\ measurements' = IF res.kind = "doc" THEN res.coll ELSE measurements
  /\ UNCHANGED <<now, dbUp, users, stations, ids, issued>>

\* router.delete('/:id') of the measurements router
MeasurementDelete(r, id) ==
  /\ Handling(r, "measurements")
  /\ LET res == findByIdAndDelete(measurements, id) IN
       /\ Updated(r, "measurements.delete", 0, NoBody, res, 500,
                  "Measurement not found", NoDoc)
       /\ measurements' = IF res.kind = "doc" THEN res.coll ELSE measurements
  /\ UNCHANGED <<now, dbUp, users, stations, ids, issued>>

----------------------------------------------------------------------------
(* Inputs *)

Routes == {"stations", "measurements"}

\* what a client can put in the place of a token: a token login returned,
\* one of those with its expiry pushed back (the signature left as it was),
\* a token signed with another key, or text that is no JWT
Tampered(t) == [t EXCEPT !.exp = @ + ExpiresIn]
Forged(u) == JwtSign(u, "another key", now)
Presentable ==
  issued \cup {Tampered(t) : t \in issued} \cup {Forged(u) : u \in DOMAIN users}
         \cup {Txt("garbage")}

\* Authorization headers: none, empty, a scheme alone, a scheme and an empty
\* token, Bearer and a token, another scheme and a token, a token alone
Headers ==
  {NoHeader, Hdr(<<>>), Hdr(<<Bearer>>), Hdr(<<Bearer, SP>>)}
    \cup {Hdr(<<Bearer, SP, t>>) : t \in Presentable}
    \cup {Hdr(<<Bearer, SP, SP, t>>) : t \in issued}
    \cup {Hdr(<<Txt("Basic"), SP, t>>) : t \in issued}
    \cup {Hdr(<<t>>) : t \in issued}

\* the headers of a client that logged in, or did not
PlainHeaders == {NoHeader} \cup {Hdr(<<Bearer, SP, t>>) : t \in issued}

Usernames == {ADMIN_USERNAME, "nobody"}
Passwords == {Str(ADMIN_PASSWORD), Str("wrong"), Undef, Num("123")}

PathIds(max) == 1..(max + 1) \cup {MalformedId}

\* a station whose name is sent as a number and whose long as a string
MistypedStation ==
  [StationDoc("A", "c2") EXCEPT !.name = Num("1"), !.long = Str("10")]

StationBodies ==
  {StationDoc(n, c) : n \in Names, c \in Codes}
    \cup {[name |-> Str(n)] : n \in Names \cup {""}}
    \cup {[code |-> Str(c)] : c \in Codes}
    \cup {NoBody, MistypedStation, [long |-> Str("east")]}

MeasurementBodies ==
  {MeasurementDoc(v, s) : v \in Values, s \in 1..(MaxStations + 1)}
    \cup {[value |-> Num(v)] : v \in Values}
    \cup {[station_id |-> s] : s \in {1, MalformedId}}

\* fewer of them, for the specifications that run both routers
FewStationBodies ==
  {StationDoc("A", "c1"), StationDoc("B", "c2"), [name |-> Str("B")],
   [name |-> Str("")]}

FewMeasurementBodies ==
  {MeasurementDoc("1", 1), MeasurementDoc("2", 2), [value |-> Num("2")],
   [station_id |-> MalformedId]}

StationQueries == {NoBody, [name |-> Str("A")]}
MeasurementQueries == {NoBody, [station_id |-> 1]}

----------------------------------------------------------------------------
(* Specifications *)

InitOn(slots) ==
  /\ now = 0
  /\ dbUp = TRUE
  /\ users = <<>>
  /\ stations = <<>>
  /\ measurements = <<>>
  /\ ids = [users |-> 0, stations |-> 0, measurements |-> 0]
  /\ issued = {}
  /\ req = [r \in slots |-> Idle]
  /\ last = NoResponse

\* a client that logs in as the admin, and sends requests with the token it
\* got or with none
Client(r) ==
  \/ Login(ADMIN_USERNAME, Str(ADMIN_PASSWORD))
  \/ \E route \in Routes, h \in PlainHeaders : Receive(r, route, h)

\* the handlers of the stations router, on the given bodies
StationRoutes(r, bodies) ==
  \/ \E q \in StationQueries : StationList(r, q)
  \/ \E id \in PathIds(MaxStations) : StationGet(r, id)
  \/ \E body \in bodies : StationCreate(r, body)
  \/ \E id \in PathIds(MaxStations), body \in bodies : StationPut(r, id, body)
  \/ \E id \in PathIds(MaxStations), body \in bodies : StationPatch(r, id, body)
  \/ \E id \in PathIds(MaxStations) : StationDelete(r, id)

\* the handlers of the measurements router, on the given bodies
MeasurementRoutes(r, bodies) ==
  \/ \E q \in MeasurementQueries : MeasurementList(r, q)
  \/ \E id \in PathIds(MaxMeasurements) : MeasurementGet(r, id)
  \/ \E body \in bodies : MeasurementCreate(r, body)
  \/ \E id \in PathIds(MaxMeasurements), body \in bodies : MeasurementPut(r, id, body)
  \/ \E id \in PathIds(MaxMeasurements), body \in bodies : MeasurementPatch(r, id, body)
  \/ \E id \in PathIds(MaxMeasurements) : MeasurementDelete(r, id)

\* The whole API, one request at a time.
Init == InitOn({"r1"})

Next ==
  \/ CreateAdmin
  \/ \E r \in DOMAIN req :
       \/ Client(r)
       \/ authenticateToken(r)
       \/ StationRoutes(r, FewStationBodies)
       \/ MeasurementRoutes(r, FewMeasurementBodies)

Spec == Init /\ [][Next]_vars

\* The stations router, with two requests in flight.
InitStations == InitOn({"r1", "r2"})

NextStations ==
  \/ CreateAdmin
  \/ \E r \in DOMAIN req :
       \/ Client(r)
       \/ authenticateToken(r)
       \/ StationRoutes(r, StationBodies)

SpecStations == InitStations /\ [][NextStations]_vars

\* The measurements router, with stations created and deleted beside it.
NextMeasurements ==
  \/ CreateAdmin
  \/ \E r \in DOMAIN req :
       \/ Client(r)
       \/ authenticateToken(r)
       \/ \E c \in Codes : StationCreate(r, StationDoc("A", c))
       \/ \E id \in 1..MaxStations : StationDelete(r, id)
       \/ MeasurementRoutes(r, MeasurementBodies)

SpecMeasurements == Init /\ [][NextMeasurements]_vars

\* Authentication over time: the clock runs, users come and go, clients
\* present every kind of header.
NextAuth ==
  \/ Tick
  \/ CreateAdmin
  \/ \E u \in DOMAIN users : RemoveUser(u)
  \/ \E username \in Usernames, password \in Passwords : Login(username, password)
  \/ \E r \in DOMAIN req :
       \/ \E route \in Routes, h \in Headers : Receive(r, route, h)
       \/ authenticateToken(r)
       \/ StationList(r, NoBody)
       \/ MeasurementList(r, NoBody)

SpecAuth == Init /\ [][NextAuth]_vars

\* The same, with a document store that can become unreachable.
NextFault ==
  \/ NextAuth
  \/ StorageFails
  \/ StorageRecovers

SpecFault == Init /\ [][NextFault]_vars

\* The writes of both routers, with two requests in flight.
WriteStationBodies ==
  {StationDoc("A", "c1"), StationDoc("B", "c2"), [name |-> Str("B")],
   [code |-> Str("c2")]}

WriteMeasurementBodies ==
  {MeasurementDoc("1", 1), MeasurementDoc("2", 2), [value |-> Num("2")]}

NextWrites ==
  \/ CreateAdmin
  \/ \E r \in DOMAIN req :
       \/ Client(r)
       \/ authenticateToken(r)
       \/ \E body \in {StationDoc("A", "c1"), StationDoc("B", "c2")} :
            StationCreate(r, body)
       \/ \E id \in 1..MaxStations, body \in WriteStationBodies :
            StationPut(r, id, body)
       \/ \E id \in 1..MaxStations, body \in WriteStationBodies :
            StationPatch(r, id, body)
       \/ MeasurementCreate(r, MeasurementDoc("1", 1))
       \/ \E id \in 1..MaxMeasurements, body \in WriteMeasurementBodies :
            MeasurementPut(r, id, body)
       \/ \E id \in 1..MaxMeasurements, body \in WriteMeasurementBodies :
            MeasurementPatch(r, id, body)

SpecWrites == InitStations /\ [][NextWrites]_vars

----------------------------------------------------------------------------
(* Properties of authentication *)

\* the steps of the middleware for the request of connection r: it ran and
\* left the request with the handler (next()) or answered it
AuthStep(r) == req[r].pc = "auth" /\ req'[r].pc # "auth"
PassedOn(r) == req'[r].pc = "handler"
Answered401(r) == req'[r].pc = "idle" /\ last'.status = 401

\* the token a request presents: what follows the first space of its header
Presented(r) == TokenOf(req[r].header)

\* a credential is valid: signed under the server's secret, not expired,
\* and its user exists
ValidCredential(tok) ==
  /\ ~Falsy(tok)
  /\ SignatureVerifies(tok.str, JWT_SECRET)
  /\ now < tok.str[1].exp
  /\ tok.str[1].userId \in DOMAIN users

\* C1: authenticateToken lets a request through, with the token's user
\* attached, if and only if the token it presents is signed under the
\* server's secret, has not expired and names a user that exists at that
\* moment; otherwise the request is answered 401.
C1_PassesIffValidCredential ==
  [][\A r \in DOMAIN req :
       AuthStep(r) =>
         /\ PassedOn(r) <=> ValidCredential(Presented(r))
         /\ PassedOn(r) => req'[r].user = Presented(r).str[1].userId
         /\ ~PassedOn(r) => Answered401(r)]_vars

\* a token that login returned was rejected because its user is gone
C1_DeletedUserRejected ==
  /\ last.input.kind = "header"
  /\ last.error = "User not found"
  /\ TokenOf(last.input.header).str[1] \in issued
  /\ TokenOf(last.input.header).str[1].userId \notin DOMAIN users

\* a header of the form `Bearer <token>`
BearerForm(header) ==
  /\ header.defined
  /\ Len(header.str) = 3
  /\ header.str[1] = Bearer
  /\ header.str[2] = SP
  /\ header.str[3] # SP

\* C2: a request whose Authorization header is absent or not of the form
\* `Bearer <token>` is answered 401 and does not reach the handler.
C2_OnlyBearerFormPasses ==
  [][\A r \in DOMAIN req :
       AuthStep(r) /\ ~BearerForm(req[r].header) => Answered401(r)]_vars

\* the password is the one the hash was made of
PasswordMatches(password, hash) ==
  password.type = "string" /\ hash = Hash(password.val)

\* the credentials are those of a stored user
CredentialsMatch(username, password) ==
  \E u \in DOMAIN users :
    users[u].username = username /\ PasswordMatches(password, users[u].password)

\* C3: login with the credentials of a stored user returns a token, expiring
\* 24 hours after it is issued, and whenever a request presents a token
\* login returned (whatever happened in between): before the 24 hours have
\* passed, and while its user exists, it is let through; after they have
\* passed it is answered 401.
C3_TokenGoodFor24h ==
  [][/\ \A username \in Usernames, password \in Passwords :
          (/\ last'.kind = "login"
           /\ Login(username, password)
           /\ CredentialsMatch(username, password)) =>
            /\ last'.status = 200
            /\ last'.doc.token = JwtSign(last'.doc.userId, JWT_SECRET, now)
            /\ last'.doc.token.exp = now + 86400
            /\ users[last'.doc.userId].username = username
            /\ last'.doc.token \in issued'
     /\ \A r \in DOMAIN req, t \in issued :
          AuthStep(r) /\ req[r].header = Hdr(<<Bearer, SP, t>>) =>
            /\ now < t.iat + 86400 /\ t.userId \in DOMAIN users => PassedOn(r)
            /\ now > t.iat + 86400 => Answered401(r)]_vars

\* a token login returned, whose user still exists, was rejected after its
\* 24 hours
C3_RejectedAfterExpiry ==
  /\ last.input.kind = "header"
  /\ last.error = "Invalid token"
  /\ \E t \in issued :
       /\ last.input.header = Hdr(<<Bearer, SP, t>>)
       /\ last.at > t.iat + 86400
       /\ t.userId \in DOMAIN users

\* C4: each rejection of authenticateToken has its own cause, and a failure
\* of the store during the user lookup is answered 500, not 401.
C4_EachRejectionItsCause ==
  [][\A r \in DOMAIN req :
       AuthStep(r) /\ ~PassedOn(r) =>
         /\ last'.error = "Access token required" => Falsy(Presented(r))
         /\ last'.error = "Invalid token" =>
              /\ ~Falsy(Presented(r))
              /\ \/ ~SignatureVerifies(Presented(r).str, JWT_SECRET)
                 \/ now >= Presented(r).str[1].exp
         /\ last'.error = "User not found" =>
              /\ dbUp
              /\ Presented(r).str[1].userId \notin DOMAIN users
         /\ (~Falsy(Presented(r)) /\ JwtVerify(Presented(r).str, JWT_SECRET, now)
               /\ ~dbUp) => last'.status = 500]_vars

\* C5: login answers a username that does not exist exactly as it answers
\* an existing username with a password that does not match, whatever the
\* body: 401 { error: 'Invalid credentials' }.
C5_LoginDoesNotTellUsers ==
  [][\A username \in Usernames, password \in Passwords :
       Login(username, password) /\ ~CredentialsMatch(username, password) =>
         /\ last'.status = 401
         /\ last'.error = "Invalid credentials"]_vars

----------------------------------------------------------------------------
(* Properties of the resource routes *)

\* the handler of the request of connection r ran and answered
HandlerStep(r) == req[r].pc = "handler" /\ req'[r].pc = "idle"

\* C6: a handler runs only for a request that authenticateToken passed on,
\* the middleware having run once for it; only a handler changes the
\* Stations and Measurements collections; and answering a request 401
\* leaves them as they were.
C6_HandlersBehindTheGate ==
  [][/\ \A r \in DOMAIN req :
          /\ AuthStep(r) => req[r].authRuns = 0
          /\ (req[r].pc # "handler" /\ PassedOn(r)) =>
               AuthStep(r) /\ req'[r].authRuns = 1
          /\ HandlerStep(r) => req[r].authRuns = 1 /\ req[r].user \in DOMAIN users
          /\ AuthStep(r) /\ ~PassedOn(r) =>
               Answered401(r) /\ UNCHANGED <<stations, measurements>>
     /\ (stations' # stations \/ measurements' # measurements) =>
          \E r \in DOMAIN req : HandlerStep(r) /\ req[r].authRuns = 1
     /\ (last' # last /\ last'.kind \notin {"login", "stations", "measurements"}) =>
          \E r \in DOMAIN req : HandlerStep(r) /\ req[r].authRuns = 1]_vars

\* both collections were written by handlers, and a request was answered 401
C6_WrittenBehindTheGate ==
  /\ stations # <<>>
  /\ measurements # <<>>
  /\ last.status = 401

\* the handler of the request of connection r answered for that route with
\* that status
Answered(r, kind, status) ==
  HandlerStep(r) /\ last'.kind = kind /\ last'.status = status

\* the request bodies of the specifications
AllStationBodies == StationBodies \cup FewStationBodies \cup WriteStationBodies
AllMeasurementBodies ==
  MeasurementBodies \cup FewMeasurementBodies \cup WriteMeasurementBodies

\* those of the bodies that supply the paths the answered request supplied
Supplied(bodies) == {body \in bodies : DOMAIN body = last'.fields}

\* the paths of a document other than those of body are as they were
OmittedKept(old, new, body) ==
  \A f \in DOMAIN old \ DOMAIN body : f \in DOMAIN new /\ new[f] = old[f]

\* no document other than id's changed, none was added or removed
OthersKept(old, new, id) ==
  /\ DOMAIN new = DOMAIN old
  /\ \A j \in DOMAIN old \ {id} : new[j] = old[j]

UniqueCodes ==
  \A i, j \in DOMAIN stations : i # j => stations[i].code # stations[j].code

\* C9: no two stored stations ever have the same code, and a create whose
\* code a station already has is answered 400 and leaves the Stations
\* collection as it was.
C9_CodesStayUnique ==
  /\ []UniqueCodes
  /\ [][\A r \in DOMAIN req :
          HandlerStep(r) /\ last'.kind = "stations.create" =>
            \A body \in Supplied(StationBodies) :
              (/\ StationCreate(r, body)
               /\ "code" \in DOMAIN body
               /\ \E j \in DOMAIN stations : stations[j].code = body.code) =>
                last'.status = 400 /\ stations' = stations]_vars

\* a create was refused for its code while another request was with its
\* handler, two stations being stored
C9_DuplicateRefused ==
  /\ last.kind = "stations.create"
  /\ last.status = 400
  /\ last.error = "E11000 duplicate key"
  /\ Cardinality(DOMAIN stations) = 2
  /\ \E r \in DOMAIN req : req[r].pc = "handler"

\* C10: a measurement whose station_id names no station that exists at that
\* moment is refused with 400 and not stored.
C10_ReferenceMustExist ==
  [][\A r \in DOMAIN req, body \in MeasurementBodies :
       (/\ MeasurementCreate(r, body)
        /\ \/ "station_id" \notin DOMAIN body
           \/ body.station_id \notin DOMAIN stations) =>
         last'.status = 400 /\ measurements' = measurements]_vars

\* the answer 404 { error: what }, both collections left as they were
NotFound404(what) ==
  /\ last'.status = 404
  /\ last'.error = what
  /\ UNCHANGED <<stations, measurements>>

\* C11: a GET, PUT, PATCH or DELETE that passed authentication, on an id no
\* record of the collection has, is answered 404 with 'Station not found'
\* (resp. 'Measurement not found') and leaves both collections as they were.
C11_UnknownIdIs404 ==
  [][\A r \in DOMAIN req :
       /\ (HandlerStep(r) /\ req[r].route = "stations") =>
            \A id \in PathIds(MaxStations) \ DOMAIN stations :
              /\ StationGet(r, id) => NotFound404("Station not found")
              /\ StationDelete(r, id) => NotFound404("Station not found")
              /\ \A body \in Supplied(AllStationBodies) :
                   /\ StationPut(r, id, body) => NotFound404("Station not found")
                   /\ StationPatch(r, id, body) => NotFound404("Station not found")
       /\ (HandlerStep(r) /\ req[r].route = "measurements") =>
            \A id \in PathIds(MaxMeasurements) \ DOMAIN measurements :
              /\ MeasurementGet(r, id) => NotFound404("Measurement not found")
              /\ MeasurementDelete(r, id) => NotFound404("Measurement not found")
              /\ \A body \in Supplied(AllMeasurementBodies) :
                   /\ MeasurementPut(r, id, body) =>
                        NotFound404("Measurement not found")
                   /\ MeasurementPatch(r, id, body) =>
                        NotFound404("Measurement not found")]_vars

\* the paths of a station
StationPaths == {"name", "long", "lat", "type", "code"}

\* a get of the station a create has just answered for: no handler has
\* answered since, so nothing was written in between
GetAfterCreate(r) ==
  /\ last.kind = "stations.create"
  /\ last.status = 201
  /\ HandlerStep(r)
  /\ StationGet(r, last.id)

\* a get of the station a get has just answered for
GetAfterGet(r) ==
  /\ last.kind = "stations.get"
  /\ last.status = 200
  /\ HandlerStep(r)
  /\ StationGet(r, last.id)

\* a get that repeats a get returns the same record, and a get writes nothing
RepeatedGetSame ==
  \A r \in DOMAIN req :
    /\ GetAfterGet(r) =>
         last'.status = 200 /\ last'.id = last.id /\ last'.doc = last.doc
    /\ (GetAfterGet(r) \/ GetAfterCreate(r)) => UNCHANGED store

\* C12 (as stated): a get that follows a create returns the name, long, lat,
\* type and code that were supplied to the create, and a repeated get returns
\* the same record without changing the store.
C12_GetReturnsSupplied ==
  [][/\ \A r \in DOMAIN req :
          GetAfterCreate(r) =>
            /\ last'.status = 200
            /\ last'.id = last.id
            /\ \A f \in StationPaths : last'.doc[f] = last.input.body[f]
     /\ RepeatedGetSame]_vars

\* C12 (amended): a get that follows a create returns the supplied values
\* cast to the types of the schema, which are the supplied values themselves
\* when these have the schema's types; a repeated get returns the same
\* record without changing the store.
C12_GetReturnsCast ==
  [][/\ \A r \in DOMAIN req :
          GetAfterCreate(r) =>
            /\ last'.status = 200
            /\ last'.id = last.id
            /\ \A f \in StationPaths :
                 /\ last'.doc[f].val = last.input.body[f].val
                 /\ last'.doc[f].type =
                      (IF f \in StationSchema.numbers THEN "number" ELSE "string")
     /\ RepeatedGetSame]_vars

\* the station created from a body with a numeric name and a string long was
\* read back
C12_MistypedReadBack ==
  /\ last.kind = "stations.get"
  /\ last.status = 200
  /\ last.doc.name = Str("1")
  /\ last.doc.long = Num("10")
  /\ stations[last.id] = last.doc

----------------------------------------------------------------------------
(* Properties of the stores *)

\* C13: a login, whatever its answer, and a run of authenticateToken,
\* whether it passes the request on or answers 401, leave the Users
\* collection (the users, their password hashes and roles) and the Stations
\* and Measurements collections as they were: nothing is persisted.
C13_AuthWritesNothing ==
  [][/\ last'.kind = "login" =>
          \A username \in Usernames, password \in Passwords :
            Login(username, password) => UNCHANGED store
     /\ \A r \in DOMAIN req : AuthStep(r) => UNCHANGED store]_vars

\* a login has returned a token and a request has been answered 401, the
\* admin being stored as created
C13_AfterLoginAndRejection ==
  /\ issued # {}
  /\ last.input.kind = "header"
  /\ last.status = 401
  /\ \E u \in DOMAIN users :
       users[u] = [username |-> ADMIN_USERNAME,
                   password |-> Hash(ADMIN_PASSWORD), role |-> "admin"]

\* the measurements that refer to station id
Dependents(id) == {m \in DOMAIN measurements : measurements[m].station_id = id}

\* C14: the delete of a station that measurements refer to is answered 200
\* and removes the station, leaving the Measurements collection as it was;
\* and the delete of a measurement whose station is gone is answered 200
\* and removes that measurement alone.
C14_DeleteLeavesDependents ==
  [][\A r \in DOMAIN req :
       /\ (HandlerStep(r) /\ last'.kind = "stations.delete") =>
            \A id \in DOMAIN stations :
              StationDelete(r, id) /\ Dependents(id) # {} =>
                /\ last'.status = 200
                /\ id \notin DOMAIN stations'
                /\ measurements' = measurements
       /\ (HandlerStep(r) /\ last'.kind = "measurements.delete") =>
            \A m \in DOMAIN measurements :
              (/\ MeasurementDelete(r, m)
               /\ measurements[m].station_id \notin DOMAIN stations) =>
                /\ last'.status = 200
                /\ DOMAIN measurements' = DOMAIN measurements \ {m}
                /\ \A j \in DOMAIN measurements' : measurements'[j] = measurements[j]
                /\ stations' = stations]_vars

\* the only station there has been was deleted, and a measurement that
\* refers to it is still stored
C14_DependentOutlivesStation ==
  /\ last.kind = "stations.delete"
  /\ last.status = 200
  /\ ids.stations = 1
  /\ stations = <<>>
  /\ \E m \in DOMAIN measurements : measurements[m].station_id = 1

\* a PUT or PATCH of the request of connection r was answered 200 while the
\* request of another connection was with a handler of the same router
WriteBesideAnother(r, router) ==
  /\ HandlerStep(r)
  /\ last'.status = 200
  /\ last'.kind \in {router \o ".put", router \o ".patch"}
  /\ \E r2 \in DOMAIN req \ {r} : Handling(r2, router)

\* what the write (body, overwrite) of the other request to the same
\* document gives once the first is done (collection `after`), against what
\* it gave before (collection `before`): it is refused or not as before,
\* and when it is not, the document holds the second write's value on every
\* path it supplies and, for a PATCH, the first write's result on the rest;
\* a PUT leaves no other path, and no other document changes
SecondWrite(schema, before, after, id, body, overwrite) ==
  LET alone == findByIdAndUpdate(schema, before, id, body, overwrite)
      second == findByIdAndUpdate(schema, after, id, body, overwrite)
  IN /\ second.kind = alone.kind
     /\ second.kind = "error" => second.message = alone.message
     /\ second.kind = "doc" =>
          /\ second.coll[id] = second.doc
          /\ \A f \in DOMAIN body : second.doc[f] = Cast(schema, body)[f]
          /\ \A f \in DOMAIN after[id] \ DOMAIN body :
               IF overwrite THEN f \notin DOMAIN second.doc
               ELSE second.doc[f] = after[id][f]
          /\ DOMAIN second.doc \subseteq DOMAIN after[id] \cup DOMAIN body
          /\ OthersKept(after, second.coll, id)

\* C15: of two writes (PUT or PATCH) in flight for the same station or
\* measurement, the second is refused or accepted as it would have been
\* without the first, and the document then is the second write applied to
\* the result of the first: the later write wins on every path both supply.
C15_LastWriteWins ==
  [][\A r \in DOMAIN req :
       /\ WriteBesideAnother(r, "stations") =>
            \A body \in WriteStationBodies, overwrite \in BOOLEAN :
              SecondWrite(StationSchema, stations, stations', last'.id, body,
                          overwrite)
       /\ WriteBesideAnother(r, "measurements") =>
            \A body \in WriteMeasurementBodies, overwrite \in BOOLEAN :
              SecondWrite(MeasurementSchema, measurements, measurements',
                          last'.id, body, overwrite)]_vars

\* a PATCH changed the code of a station while another request was with a
\* handler of the stations router
C15_WrittenBesideAnother ==
  /\ last.kind = "stations.patch"
  /\ last.status = 200
  /\ last.fields = {"code"}
  /\ stations[last.id] = StationDoc("A", "c2")
  /\ \E r \in DOMAIN req : Handling(r, "stations")

====
